---- MODULE Spec2Model ----
(***************************************************************************)
(* Model of byte.py: the byte-level recursive convolutional autoencoder.   *)
(* Tensors are modelled by their shapes (sequences of dimension sizes),    *)
(* byte rows by sequences of integers, model parameters by a version       *)
(* number that every optimizer step advances.                              *)
(***************************************************************************)
EXTENDS Integers, Sequences, FiniteSets, TLC

VARIABLES
    \* forward pass (ByteCNN.train_on / eval_on / try_on body, one batch)
    fpc, src, x, r, it, emsize, n,
    \* UTF8File.__init__: the dict of lists, the lines they came from, the
    \* dict of arrays, the dict's iteration order
    lpc, lines_by_len, origin, lines, order,
    \* UTF8File.iter_epoch: the generator's arguments and position, the list
    \* of batches it builds, the batches yielded so far, and the output of
    \* the last finished evaluation-mode iteration
    epc, bsz, evaluation, bix, cix, batch_inds, yielded, prevEval,
    \* the training script: its arguments, its position, the model's
    \* parameters, the optimizer, the scheduler, the logger's files, the
    \* batches left in the running pass, whether Ctrl-C was caught, and the
    \* parameters at the end of the last completed epoch
    tpc, args, epoch, params, opt, sched, logger, left, interrupted, lastCompleted,
    \* ByteCNN.load_model: the lines of model.info and the outcome
    mpc, model_info, loaded,
    \* ByteCNN.try_on: the predicted rows of the batch and the strings decoded
    ypc, predictions, decoded

fvars == <<fpc, src, x, r, it, emsize, n>>
lvars == <<lpc, lines_by_len, origin, lines, order>>
evars == <<epc, bsz, evaluation, bix, cix, batch_inds, yielded, prevEval>>
tvars == <<tpc, args, epoch, params, opt, sched, logger, left, interrupted, lastCompleted>>
mvars == <<mpc, model_info, loaded>>
yvars == <<ypc, predictions, decoded>>
vars == <<fvars, lvars, evars, tvars, mvars, yvars>>
notFwd == <<lvars, evars, tvars, mvars, yvars>>
notLoader == <<fvars, evars, tvars, mvars, yvars>>
notEpoch == <<fvars, tvars, mvars, yvars>>
notRun == <<fvars, lvars, evars, mvars, yvars>>
notLoadModel == <<fvars, lvars, evars, tvars, yvars>>
notTryOn == <<fvars, lvars, evars, tvars, mvars>>

(***************************************************************************)
(* Bounds of the model.                                                    *)
(***************************************************************************)
MaxLen == 100
MaxBsz == 2
EmSizes == {2, 3}
Depths == {2, 4}
MaxLineLen == 2
MaxLines == 2
\* code points a line is drawn from: BEL, space, 'h', e-acute
Chars == {7, 32, 104, 233}
MaxFileLines == 5
MaxEpochs == 2
MaxBatches == 2
MaxPrevSteps == 1
\* --lr-lambda: none, halve every epoch, halve every 10 epochs (the default)
LrPeriods == {0, 1, 10}
MaxInfoLines == 2
InfoKeys == {"model_class", "model_kwargs", "extra"}
InfoValues == {"ByteCNN", "ByteCNNEncoder", "Unknown", "n=4", ""}
MaxPredLen == 4
\* predicted classes: EOS, PAD, the quote, 'H', 'I', a byte above 127
PredBytes == {0, 7, 39, 72, 73, 200}
\* the lines of the files an epoch is iterated over: "h" and "hi"
EpochLines == {<<104>>, <<104, 105>>}

(***************************************************************************)
(* Arithmetic helpers.                                                     *)
(***************************************************************************)
RECURSIVE Pow2(_)
Pow2(k) == IF k = 0 THEN 1 ELSE 2 * Pow2(k - 1)

RECURSIVE FloorLog2(_)
FloorLog2(m) == IF m <= 1 THEN 0 ELSE 1 + FloorLog2(m \div 2)

\* np.log2 of a positive integer, as the float it returns: its integer part
\* and whether a fractional part is left (the float is exact for every power
\* of two, and is no integer for any other length a tensor can have).
NpLog2(m) == [int |-> FloorLog2(m), frac |-> Pow2(FloorLog2(m)) # m]

\* int(rfloat): truncation.
PyInt(f) == f.int

\* the comparison with the assert left out
FloatEqUnchecked(k, f) == TRUE

\* float(r) == rfloat
FloatEq(k, f) == (~f.frac) /\ k = f.int

\* np.ceil(rfloat)
NpCeil(f) == IF f.frac THEN f.int + 1 ELSE f.int

(***************************************************************************)
(* Layers, by their effect on the shape <<bsz, channels, length>>.         *)
(* The value "fail" stands for the exception torch raises.                 *)
(***************************************************************************)
Fail == <<>>

\* nn.Conv1d(cin, cout, kernel_size=k, stride=s, padding=p)
Conv1d(s, cin, cout, k, st, p) ==
    IF s = Fail \/ Len(s) # 3 THEN Fail
    ELSE IF s[2] # cin \/ s[3] + 2 * p < k THEN Fail
    ELSE <<s[1], cout, ((s[3] + 2 * p - k) \div st) + 1>>

\* conv_kwargs = dict(kernel_size=3, stride=1, padding=1, bias=False)
ConvProto(s, em) == Conv1d(s, em, em, 3, 1, 1)

\* nn.Linear(emsize*4, emsize*4)
LinearProto(s, em) ==
    IF s = Fail \/ Len(s) # 2 THEN Fail
    ELSE IF s[2] # 4 * em THEN Fail
    ELSE <<s[1], 4 * em>>

\* nn.MaxPool1d(kernel_size=2): stride defaults to the kernel size.
MaxPool1d(s) ==
    IF s = Fail \/ Len(s) # 3 THEN Fail
    ELSE IF s[3] < 2 THEN Fail
    ELSE <<s[1], s[2], ((s[3] - 2) \div 2) + 1>>

\* the expanding transform without the fold of channels into positions
ExpandConv1dNoFold(s, em) ==
    LET y == Conv1d(s, em, 2 * em, 3, 1, 1) IN
    IF y = Fail THEN Fail ELSE <<y[1], y[2] \div 2, y[3]>>

\* ExpandConv1d.forward: conv to 2*emsize channels, then fold each pair of
\* channels into two consecutive positions.
ExpandConv1d(s, em) ==
    LET y == Conv1d(s, em, 2 * em, 3, 1, 1) IN
    IF y = Fail THEN Fail
    ELSE IF (y[2] \div 2) * 2 * y[3] # y[2] * y[3] THEN Fail
    ELSE <<y[1], y[2] \div 2, 2 * y[3]>>

\* Residual.forward with a convolution prototype: out += residual needs the
\* two shapes to agree.
ResidualConv(s, em) ==
    LET out == ConvProto(ConvProto(s, em), em) IN
    IF out = Fail \/ out # s THEN Fail ELSE out

\* Residual.forward with a linear prototype.
ResidualLinear(s, em) ==
    LET out == LinearProto(LinearProto(s, em), em) IN
    IF out = Fail \/ out # s THEN Fail ELSE out

\* nn.Sequential(*residual_list(conv_proto, k))
RECURSIVE ResidualConvList(_, _, _)
ResidualConvList(s, em, k) ==
    IF k <= 0 THEN s ELSE ResidualConvList(ResidualConv(s, em), em, k - 1)

\* nn.Sequential(*residual_list(linear_proto, k))
RECURSIVE ResidualLinearList(_, _, _)
ResidualLinearList(s, em, k) ==
    IF k <= 0 THEN s ELSE ResidualLinearList(ResidualLinear(s, em), em, k - 1)

\* self.embedding(x).transpose(1, 2): <<bsz, L>> -> <<bsz, emsize, L>>
EmbedTranspose(s, em) ==
    IF s = Fail \/ Len(s) # 2 THEN Fail ELSE <<s[1], em, s[2]>>

\* ByteCNNEncoder.prefix
EncPrefixLayers(s, em, d) == ResidualConvList(s, em, d \div 2)

\* ByteCNNEncoder.recurrent: n//2 residual blocks, then the pooling.
EncRecurrentLayers(s, em, d) == MaxPool1d(ResidualConvList(s, em, d \div 2))

\* x.view(bsz, -1)
Flatten(s) == IF s = Fail THEN Fail ELSE <<s[1], s[2] * s[3]>>

\* ByteCNNEncoder.postfix: n//2-1 residual blocks and one without the relu.
EncPostfixLayers(s, em, d) ==
    ResidualLinear(ResidualLinearList(s, em, (d \div 2) - 1), em)

\* ByteCNNDecoder.prefix
DecPrefixLayers(s, em, d) == ResidualLinearList(s, em, d \div 2)

\* x.view(x.size(0), self.emsize, 4): the element count must not change.
ViewSeq4(s, em) ==
    IF s = Fail THEN Fail
    ELSE IF s[2] # em * 4 THEN Fail
    ELSE <<s[1], em, 4>>

\* ByteCNNDecoder.recurrent
DecRecurrentLayers(s, em, d) ==
    ResidualConvList(ConvProto(ExpandConv1d(s, em), em), em, (d \div 2) - 1)

\* ByteCNNDecoder.postfix
DecPostfixLayers(s, em, d) == ResidualConvList(s, em, d \div 2)

(***************************************************************************)
(* The forward pass of one batch: r = num_recurrences(src), then           *)
(* encoder(src, r), then decoder(features, r).                             *)
(***************************************************************************)
FwdIdle ==
    /\ fpc = "idle"
    /\ src = <<1, 1>>
    /\ x = src
    /\ r = 0
    /\ it = 0
    /\ emsize = 2
    /\ n = 2

LoaderIdle ==
    /\ lpc = "idle"
    /\ lines_by_len = <<>>
    /\ origin = <<>>
    /\ lines = <<>>
    /\ order = <<>>

EpochIdle ==
    /\ epc = "idle"
    /\ bsz = 1
    /\ evaluation = FALSE
    /\ bix = 1
    /\ cix = 0
    /\ batch_inds = <<>>
    /\ yielded = <<>>
    /\ prevEval = [bsz |-> 0, out |-> <<>>]

RunIdle ==
    /\ tpc = "idle"
    /\ args = <<>>
    /\ epoch = 0
    /\ params = 0
    /\ opt = <<>>
    /\ sched = <<>>
    /\ logger = <<>>
    /\ left = 0
    /\ interrupted = FALSE
    /\ lastCompleted = 0

LoadModelIdle ==
    /\ mpc = "idle"
    /\ model_info = <<>>
    /\ loaded = "none"

TryOnIdle ==
    /\ ypc = "idle"
    /\ predictions = <<>>
    /\ decoded = <<>>

FwdInit ==
    /\ LoaderIdle
    /\ EpochIdle
    /\ RunIdle
    /\ LoadModelIdle
    /\ TryOnIdle
    /\ fpc = "num_recurrences"
    /\ src \in {<<b, l>> : b \in 1..MaxBsz, l \in 1..MaxLen}
    /\ x = src
    /\ r = 0
    /\ it = 0
    /\ emsize \in EmSizes
    /\ n \in Depths

\* ByteCNNEncoder.num_recurrences
NumRecurrences ==
    /\ fpc = "num_recurrences"
    /\ LET rfloat == NpLog2(src[2])
           rr == PyInt(rfloat)
       IN IF FloatEq(rr, rfloat)
          THEN /\ r' = rr
               /\ fpc' = "enc_prefix"
          ELSE /\ r' = r
               /\ fpc' = "assert_failed"
    /\ UNCHANGED <<src, x, it, emsize, n, notFwd>>

\* ByteCNNEncoder.forward, up to the loop
EncPrefix ==
    /\ fpc = "enc_prefix"
    /\ x' = EncPrefixLayers(EmbedTranspose(x, emsize), emsize, n)
    /\ it' = 0
    /\ fpc' = "enc_recurrent"
    /\ UNCHANGED <<src, r, emsize, n, notFwd>>

\* one iteration of: for _ in xrange(r-2): x = self.recurrent(x)
EncRecurrent ==
    /\ fpc = "enc_recurrent"
    /\ it < r - 2
    /\ LET y == EncRecurrentLayers(x, emsize, n) IN
       /\ x' = y
       /\ fpc' = IF y = Fail THEN "shape_error" ELSE "enc_recurrent"
    /\ it' = it + 1
    /\ UNCHANGED <<src, r, emsize, n, notFwd>>

\* return self.postfix(x.view(bsz, -1))
EncPostfix ==
    /\ fpc = "enc_recurrent"
    /\ ~(it < r - 2)
    /\ LET y == EncPostfixLayers(Flatten(x), emsize, n) IN
       /\ x' = y
       /\ fpc' = IF y = Fail THEN "shape_error" ELSE "dec_prefix"
    /\ UNCHANGED <<src, r, it, emsize, n, notFwd>>

\* ByteCNNDecoder.forward, up to the loop
DecPrefix ==
    /\ fpc = "dec_prefix"
    /\ LET y == ViewSeq4(DecPrefixLayers(x, emsize, n), emsize) IN
       /\ x' = y
       /\ fpc' = IF y = Fail THEN "shape_error" ELSE "dec_recurrent"
    /\ it' = 0
    /\ UNCHANGED <<src, r, emsize, n, notFwd>>

\* one iteration of: for _ in xrange(r-2): x = self.recurrent(x)
DecRecurrent ==
    /\ fpc = "dec_recurrent"
    /\ it < r - 2
    /\ LET y == DecRecurrentLayers(x, emsize, n) IN
       /\ x' = y
       /\ fpc' = IF y = Fail THEN "shape_error" ELSE "dec_recurrent"
    /\ it' = it + 1
    /\ UNCHANGED <<src, r, emsize, n, notFwd>>

\* return self.postfix(x)
DecPostfix ==
    /\ fpc = "dec_recurrent"
    /\ ~(it < r - 2)
    /\ LET y == DecPostfixLayers(x, emsize, n) IN
       /\ x' = y
       /\ fpc' = IF y = Fail THEN "shape_error" ELSE "done"
    /\ UNCHANGED <<src, r, it, emsize, n, notFwd>>

FwdNext ==
    \/ NumRecurrences
    \/ EncPrefix
    \/ EncRecurrent
    \/ EncPostfix
    \/ DecPrefix
    \/ DecRecurrent
    \/ DecPostfix

SpecForward == FwdInit /\ [][FwdNext]_vars

(***************************************************************************)
(* Claims about the forward pass.                                          *)
(***************************************************************************)
RECURSIVE IsPowerOfTwo(_)
IsPowerOfTwo(m) ==
    IF m <= 1 THEN m = 1 ELSE m % 2 = 0 /\ IsPowerOfTwo(m \div 2)

\* C1: for every batch whose length L is a power of two with log2(L) >= 2,
\* the forward pass with r = log2(L) ends with a sequence-length dimension
\* equal to L, and no layer fails on the way.
C1_RoundTripShape ==
    (IsPowerOfTwo(src[2]) /\ src[2] >= 4) =>
        /\ fpc \notin {"shape_error", "assert_failed"}
        /\ fpc = "done" => (Len(x) = 3 /\ x[3] = src[2] /\ x[1] = src[1])
        /\ fpc = "dec_prefix" => x = <<src[1], 4 * emsize>>

C1_Witness ==
    /\ fpc = "done"
    /\ src[2] = 64
    /\ r = 6
    /\ x[3] = 64

\* C2: num_recurrences returns exactly log2(L) when L is a power of two and
\* raises for every other L, e.g. L = 100.
C2_NumRecurrences ==
    fpc # "num_recurrences" =>
        IF IsPowerOfTwo(src[2])
        THEN fpc # "assert_failed" /\ Pow2(r) = src[2]
        ELSE fpc = "assert_failed"

C2_Witness ==
    /\ fpc = "assert_failed"
    /\ src[2] = 100

(***************************************************************************)
(* UTF8File.__init__: one line of the file becomes one padded byte row.    *)
(***************************************************************************)
EOS == 0
EMPTY == 7

\* what unicode.strip() removes
Whitespace == {9, 10, 11, 12, 13, 28, 29, 30, 31, 32, 133, 160}

RECURSIVE LStrip(_)
LStrip(s) ==
    IF s # <<>> /\ Head(s) \in Whitespace THEN LStrip(Tail(s)) ELSE s

RECURSIVE RStrip(_)
RStrip(s) ==
    IF s # <<>> /\ s[Len(s)] \in Whitespace
    THEN RStrip(SubSeq(s, 1, Len(s) - 1))
    ELSE s

\* line.strip()
Strip(s) == RStrip(LStrip(s))

\* the UTF-8 bytes of one code point (up to three bytes)
Utf8Char(cp) ==
    IF cp < 128 THEN <<cp>>
    ELSE IF cp < 2048 THEN <<192 + (cp \div 64), 128 + (cp % 64)>>
    ELSE <<224 + (cp \div 4096), 128 + ((cp \div 64) % 64), 128 + (cp % 64)>>

\* [ord(c) for c in s.encode('utf-8')]
RECURSIVE Utf8Encode(_)
Utf8Encode(s) ==
    IF s = <<>> THEN <<>> ELSE Utf8Char(Head(s)) \o Utf8Encode(Tail(s))

\* [v] * k
RECURSIVE Repeat(_, _)
Repeat(v, k) == IF k <= 0 THEN <<>> ELSE <<v>> \o Repeat(v, k - 1)

\* padding to the length before it, off by one power of two
PaddedLenFloor(m) == Pow2(PyInt(NpLog2(m)))

\* int(2 ** np.ceil(np.log2(len(bytes_))))
PaddedLen(m) == Pow2(NpCeil(NpLog2(m)))

\* bytes_ = [ord(c) for c in line.strip().encode('utf-8')] + [self.EOS]
WithEos(line) == Utf8Encode(Strip(line)) \o <<EOS>>

\* bytes_ += [self.EMPTY] * (... - len(bytes_))
PadRow(b) == b \o Repeat(EMPTY, PaddedLen(Len(b)) - Len(b))

\* lines_by_len[len(bytes_)].append(bytes_) on a defaultdict(list)
DictAppend(d, key, v) ==
    [k \in DOMAIN d \cup {key} |->
        IF k = key
        THEN (IF k \in DOMAIN d THEN Append(d[k], v) ELSE <<v>>)
        ELSE d[k]]

RECURSIVE SeqsUpTo(_, _)
SeqsUpTo(S, k) ==
    IF k = 0 THEN {<<>>}
    ELSE LET shorter == SeqsUpTo(S, k - 1) IN
         shorter \cup {Append(s, c) : s \in shorter, c \in S}

\* the orders a dict with these keys may iterate in
RECURSIVE Orders(_)
Orders(K) ==
    IF K = {} THEN {<<>>}
    ELSE UNION {{<<k>> \o o : o \in Orders(K \ {k})} : k \in K}

RowCount(d) ==
    LET RECURSIVE Sum(_)
        Sum(K) == IF K = {} THEN 0
                  ELSE LET k == CHOOSE kk \in K : TRUE
                       IN Len(d[k]) + Sum(K \ {k})
    IN Sum(DOMAIN d)

LoaderInit ==
    /\ FwdIdle
    /\ EpochIdle
    /\ RunIdle
    /\ LoadModelIdle
    /\ TryOnIdle
    /\ lpc = "reading"
    /\ lines_by_len = <<>>
    /\ origin = <<>>
    /\ lines = <<>>
    /\ order = <<>>

\* one iteration of: for line in f
ReadLine ==
    /\ lpc = "reading"
    /\ RowCount(lines_by_len) < MaxLines
    /\ \E line \in SeqsUpTo(Chars, MaxLineLen) :
         LET bytes_ == PadRow(WithEos(line)) IN
         /\ lines_by_len' = DictAppend(lines_by_len, Len(bytes_), bytes_)
         /\ origin' = DictAppend(origin, Len(bytes_), line)
    /\ UNCHANGED <<lpc, lines, order, notLoader>>

\* self.lines = {k: np.asarray(v) for k, v in lines_by_len.items()}
ConvertToArrays ==
    /\ lpc = "reading"
    /\ lines' = lines_by_len
    /\ order' \in Orders(DOMAIN lines_by_len)
    /\ lpc' = "loaded"
    /\ UNCHANGED <<lines_by_len, origin, notLoader>>

LoaderNext ==
    \/ ReadLine
    \/ ConvertToArrays

SpecLoader == LoaderInit /\ [][LoaderNext]_vars

(***************************************************************************)
(* Claims about the stored rows.                                           *)
(***************************************************************************)
\* the byte length of a line's content, counted code point by code point
RECURSIVE ContentLen(_)
ContentLen(s) ==
    IF s = <<>> THEN 0
    ELSE (IF Head(s) < 128 THEN 1 ELSE IF Head(s) < 2048 THEN 2 ELSE 3)
         + ContentLen(Tail(s))

\* C3: every stored row has a length that is a power of two, at least the
\* line's byte length plus one, and the smallest such power of two.
C3_PaddedLength ==
    \A k \in DOMAIN lines_by_len : \A i \in 1..Len(lines_by_len[k]) :
        LET row == lines_by_len[k][i]
            need == ContentLen(Strip(origin[k][i])) + 1
        IN /\ Len(row) = k
           /\ IsPowerOfTwo(k)
           /\ k >= need
           /\ (k = 1 \/ k \div 2 < need)

\* an empty line stored as a row of length 1, and a five-byte line in a row
\* of length 8
C3_Witness ==
    /\ 1 \in DOMAIN lines_by_len
    /\ 8 \in DOMAIN lines_by_len
    /\ origin[1][1] = <<>>
    /\ ContentLen(Strip(origin[8][1])) = 4

\* C10: every stored row is content, one EOS, then only PAD, and the PAD
\* value never occurs before the EOS marker.
C10_PadOnlyAfterEos ==
    \A k \in DOMAIN lines_by_len : \A i \in 1..Len(lines_by_len[k]) :
        LET row == lines_by_len[k][i]
            eos == ContentLen(Strip(origin[k][i])) + 1
        IN /\ eos <= Len(row)
           /\ row[eos] = EOS
           /\ \A j \in 1..(eos - 1) : row[j] # EMPTY
           /\ \A j \in (eos + 1)..Len(row) : row[j] = EMPTY

(***************************************************************************)
(* UTF8File.iter_epoch and get_num_batches.  Row indices count from 1.     *)
(***************************************************************************)
\* the whole of __init__ on a file given as its sequence of lines
RECURSIVE LoadFile(_)
LoadFile(f) ==
    IF f = <<>> THEN <<>>
    ELSE LET bytes_ == PadRow(WithEos(f[Len(f)])) IN
         DictAppend(LoadFile(SubSeq(f, 1, Len(f) - 1)), Len(bytes_), bytes_)

Max(a, b) == IF a >= b THEN a ELSE b
Min(a, b) == IF a <= b THEN a ELSE b

\* sum(arr.shape[0] // bsz for arr in self.lines.values())
GetNumBatches(d, b) ==
    LET RECURSIVE Sum(_)
        Sum(K) == IF K = {} THEN 0
                  ELSE LET k == CHOOSE kk \in K : TRUE
                       IN (Len(d[k]) \div b) + Sum(K \ {k})
    IN Sum(DOMAIN d)

\* sections whose remainder rows are left out
ArraySplitChunkTruncating(rows, k, j) ==
    LET each == rows \div k IN
    [i \in 1..each |-> j * each + i]

\* np.array_split(data, k)[j], j counted from 0, as the row indices it
\* holds: the first rows % k sections get one row more.
ArraySplitChunk(rows, k, j) ==
    LET each == rows \div k
        extras == rows % k
        start == j * each + Min(j, extras)
        size == IF j < extras THEN each + 1 ELSE each
    IN [i \in 1..size |-> start + i]

\* max(1, data.shape[0] // bsz)
EvalSections(rows, b) == Max(1, rows \div b)

\* draws with replacement in place of a permutation
RandomDraws(m) == [1..m -> 1..m]

\* np.random.permutation(m): every arrangement of the m row indices
Permutation(m) == Orders(1..m)

\* all_inds[:(bsz * num_batches)]
Truncate(all_inds, m) == SubSeq(all_inds, 1, m)

\* np.split(all_inds, num_batches)[j], j counted from 0
SplitChunk(all_inds, num_batches, j) ==
    LET each == Len(all_inds) \div num_batches IN
    SubSeq(all_inds, j * each + 1, (j + 1) * each)

\* [(len_, inds) for inds in np.split(all_inds, num_batches)]
BucketBatches(len_, all_inds, num_batches) ==
    [j \in 1..num_batches |->
        [len |-> len_, inds |-> SplitChunk(all_inds, num_batches, j - 1)]]

\* np.random.shuffle(batch_inds): every arrangement of the list
Shuffles(s) ==
    {[i \in 1..Len(s) |-> s[p[i]]] : p \in Permutation(Len(s))}

\* self.lines[len_][inds]
Rows(d, len_, inds) == [i \in 1..Len(inds) |-> d[len_][inds[i]]]

EpochInit ==
    /\ FwdIdle
    /\ RunIdle
    /\ LoadModelIdle
    /\ TryOnIdle
    /\ lpc = "loaded"
    /\ \E f \in SeqsUpTo(EpochLines, MaxFileLines) :
         /\ lines_by_len = LoadFile(f)
         /\ origin = <<>>
    /\ lines = lines_by_len
    /\ order \in Orders(DOMAIN lines)
    /\ EpochIdle

\* iter_epoch(bsz, evaluation): a new generator
StartEpoch ==
    /\ epc \in {"idle", "done"}
    /\ \E b \in 1..MaxBsz, ev \in BOOLEAN :
         /\ bsz' = b
         /\ evaluation' = ev
         /\ epc' = IF ev THEN "eval" ELSE "build"
    /\ bix' = 1
    /\ cix' = 0
    /\ batch_inds' = <<>>
    /\ yielded' = <<>>
    /\ UNCHANGED <<prevEval, lvars, notEpoch>>

\* evaluation mode: the next chunk of the current bucket
EvalYield ==
    /\ epc = "eval"
    /\ bix <= Len(order)
    /\ LET len_ == order[bix]
           rows == Len(lines[len_])
           k == EvalSections(rows, bsz)
           inds == ArraySplitChunk(rows, k, cix)
       IN /\ yielded' = Append(yielded,
                 [len |-> len_, inds |-> inds, rows |-> Rows(lines, len_, inds)])
          /\ IF cix + 1 < k
             THEN /\ cix' = cix + 1
                  /\ bix' = bix
             ELSE /\ cix' = 0
                  /\ bix' = bix + 1
    /\ UNCHANGED <<epc, bsz, evaluation, batch_inds, prevEval, lvars, notEpoch>>

\* evaluation mode: the generator is exhausted
EvalEnd ==
    /\ epc = "eval"
    /\ bix > Len(order)
    /\ epc' = "done"
    /\ prevEval' = [bsz |-> bsz, out |-> yielded]
    /\ UNCHANGED <<bsz, evaluation, bix, cix, batch_inds, yielded, lvars, notEpoch>>

\* training mode: the batches of the next bucket
TrainBucket ==
    /\ epc = "build"
    /\ bix <= Len(order)
    /\ LET len_ == order[bix]
           rows == Len(lines[len_])
           num_batches == rows \div bsz
       IN IF num_batches = 0
          THEN batch_inds' = batch_inds
          ELSE \E perm \in Permutation(rows) :
                 LET all_inds == Truncate(perm, bsz * num_batches) IN
                 batch_inds' = batch_inds \o BucketBatches(len_, all_inds, num_batches)
    /\ bix' = bix + 1
    /\ UNCHANGED <<epc, bsz, evaluation, cix, yielded, prevEval, lvars, notEpoch>>

\* training mode: np.random.shuffle(batch_inds)
ShuffleBatches ==
    /\ epc = "build"
    /\ bix > Len(order)
    /\ batch_inds' \in Shuffles(batch_inds)
    /\ epc' = "yield"
    /\ UNCHANGED <<bsz, evaluation, bix, cix, yielded, prevEval, lvars, notEpoch>>

\* training mode: the next batch of the shuffled list
TrainYield ==
    /\ epc = "yield"
    /\ batch_inds # <<>>
    /\ LET b == Head(batch_inds) IN
       yielded' = Append(yielded,
           [len |-> b.len, inds |-> b.inds, rows |-> Rows(lines, b.len, b.inds)])
    /\ batch_inds' = Tail(batch_inds)
    /\ UNCHANGED <<epc, bsz, evaluation, bix, cix, prevEval, lvars, notEpoch>>

\* training mode: the generator is exhausted
TrainEnd ==
    /\ epc = "yield"
    /\ batch_inds = <<>>
    /\ epc' = "done"
    /\ UNCHANGED <<bsz, evaluation, bix, cix, batch_inds, yielded, prevEval, lvars, notEpoch>>

EpochNext ==
    \/ StartEpoch
    \/ EvalYield
    \/ EvalEnd
    \/ TrainBucket
    \/ ShuffleBatches
    \/ TrainYield
    \/ TrainEnd

SpecEpoch == EpochInit /\ [][EpochNext]_vars

(***************************************************************************)
(* Claims about one epoch of batches.                                      *)
(***************************************************************************)
\* the row indices of bucket k in the order they were yielded
RECURSIVE YieldedInds(_, _)
YieldedInds(out, k) ==
    IF out = <<>> THEN <<>>
    ELSE (IF Head(out).len = k THEN Head(out).inds ELSE <<>>)
         \o YieldedInds(Tail(out), k)

OrderPos(k) == CHOOSE i \in 1..Len(order) : order[i] = k

IsPrefix(s, t) == Len(s) <= Len(t) /\ SubSeq(t, 1, Len(s)) = s

\* C4: in a training-mode epoch every yielded batch holds exactly bsz rows of
\* one bucket, no example is yielded twice, a bucket with fewer than bsz rows
\* yields nothing, and the finished epoch has yielded get_num_batches(bsz)
\* batches, the sum over the buckets of floor(bucket size / bsz).
C4_TrainingBatches ==
    (~evaluation /\ epc \in {"yield", "done"}) =>
        /\ \A i \in 1..Len(yielded) :
             LET b == yielded[i] IN
             /\ Len(b.rows) = bsz
             /\ \A j \in 1..Len(b.rows) : Len(b.rows[j]) = b.len
             /\ \A j \in 1..Len(b.inds) : b.inds[j] \in 1..Len(lines[b.len])
             /\ Len(lines[b.len]) >= bsz
        /\ \A k \in DOMAIN lines :
             LET got == YieldedInds(yielded, k) IN
             \A i, j \in 1..Len(got) : got[i] = got[j] => i = j
        /\ epc = "done" => Len(yielded) = GetNumBatches(lines, bsz)

\* a finished epoch of two batches of two, with a one-row bucket left out
C4_Witness ==
    /\ ~evaluation
    /\ epc = "done"
    /\ bsz = 2
    /\ Len(yielded) = 2
    /\ \E k \in DOMAIN lines : Len(lines[k]) = 1
    /\ \E k \in DOMAIN lines : Len(lines[k]) = 4

\* C5: an evaluation-mode epoch yields every row of every bucket exactly
\* once, bucket by bucket in stored order, in chunks whose sizes differ by at
\* most one, and a second iteration with the same batch size yields the same
\* batches in the same order.
C5_EvaluationBatches ==
    (evaluation /\ epc = "eval") =>
        /\ \A k \in DOMAIN lines :
             LET got == YieldedInds(yielded, k) IN
             /\ Len(got) <= Len(lines[k])
             /\ \A i \in 1..Len(got) : got[i] = i
             /\ bix > Len(order) => Len(got) = Len(lines[k])
        /\ \A i, j \in 1..Len(yielded) :
             /\ i < j => OrderPos(yielded[i].len) <= OrderPos(yielded[j].len)
             /\ (yielded[i].len = yielded[j].len /\ OrderPos(yielded[i].len) < bix)
                  => (Len(yielded[i].inds) - Len(yielded[j].inds)) \in {-1, 0, 1}
        /\ \A i \in 1..Len(yielded) :
             /\ yielded[i].inds # <<>>
             /\ yielded[i].rows = [j \in 1..Len(yielded[i].inds) |->
                                     lines[yielded[i].len][yielded[i].inds[j]]]
        /\ prevEval.bsz = bsz =>
             /\ IsPrefix(yielded, prevEval.out)
             /\ bix > Len(order) => yielded = prevEval.out

\* a second evaluation pass over a bucket of five rows with batch size 2:
\* chunks of three and two rows
C5_Witness ==
    /\ evaluation
    /\ epc = "eval"
    /\ bix > Len(order)
    /\ prevEval.bsz = bsz
    /\ bsz = 2
    /\ Len(yielded) = 2
    /\ Len(yielded[1].inds) = 3
    /\ Len(yielded[2].inds) = 2

(***************************************************************************)
(* The training script.  Parameters are a version number: 0 for a freshly  *)
(* constructed model, advanced by every optimizer step.  The learning rate *)
(* is the number of halvings of the base rate, -1 for a forced rate.       *)
(***************************************************************************)
NoState == -1

\* Logger(...): nothing saved yet
NewLogger == [best |-> NoState, current |-> NoState, epoch |-> 0,
              training_state |-> <<>>]

\* logger.save_model_state_dict(state, current=...)
SaveModelStateDict(lg, state, current) ==
    IF current THEN [lg EXCEPT !.current = state] ELSE [lg EXCEPT !.best = state]

\* logger.load_model_state_dict(current=...)
LoadModelStateDict(lg, current) == IF current THEN lg.current ELSE lg.best

\* logger.mark_epoch_start(epoch)
MarkEpochStart(lg, e) == [lg EXCEPT !.epoch = e]

\* logger.save_training_state(optimizer, args)
SaveTrainingState(lg, o) == [lg EXCEPT !.training_state = o]

\* lr_lambda(epoch), as the number of halvings: 0.5 ** (epoch // period)
LrLambda(e, period) == e \div period

\* the logger a resumed run starts from: written by an earlier run that took
\* prev optimizer steps and saved its state in epoch e0
SavedLogger(prev, e0) ==
    [best |-> 0, current |-> prev, epoch |-> e0,
     training_state |-> [steps |-> prev, lr |-> 0]]

RunInit ==
    /\ FwdIdle
    /\ LoaderIdle
    /\ EpochIdle
    /\ LoadModelIdle
    /\ TryOnIdle
    /\ tpc = "setup"
    /\ args \in [resume_training : BOOLEAN, save_state : BOOLEAN,
                 epochs : 0..MaxEpochs, lr_period : LrPeriods,
                 force_lr : BOOLEAN,
                 \* the batches the three files give per pass
                 train_batches : 0..MaxBatches,
                 valid_batches : 1..MaxBatches,
                 test_batches : 1..MaxBatches]
    /\ args.force_lr => args.resume_training
    /\ epoch = 0
    /\ params = 0
    /\ opt = [steps |-> 0, lr |-> 0]
    /\ sched = [on |-> args.lr_period # 0, last_epoch |-> 0, bound |-> TRUE]
    /\ logger \in IF args.resume_training
                  THEN {SavedLogger(prev, e0) : prev \in 1..MaxPrevSteps, e0 \in 1..MaxEpochs}
                  ELSE {<<>>}
    /\ left = 0
    /\ interrupted = FALSE
    /\ lastCompleted = 0

\* if args.resume_training != '': the optimizer and the parameters of the
\* saved run replace the fresh ones.  Whether the scheduler, built on the
\* fresh optimizer, drives the restored one is up to set_training_state.
ResumeSetup ==
    /\ tpc = "setup"
    /\ args.resume_training
    /\ \E same \in BOOLEAN : sched' = [sched EXCEPT !.bound = same]
    /\ opt' = IF args.force_lr
              THEN [logger.training_state EXCEPT !.lr = -1]
              ELSE logger.training_state
    /\ params' = LoadModelStateDict(logger, TRUE)
    /\ lastCompleted' = LoadModelStateDict(logger, TRUE)
    /\ epoch' = logger.epoch + 1
    /\ tpc' = "save_initial"
    /\ UNCHANGED <<args, logger, left, interrupted, notRun>>

\* else: a new logger, first_epoch = 1
FreshSetup ==
    /\ tpc = "setup"
    /\ ~args.resume_training
    /\ logger' = NewLogger
    /\ epoch' = 1
    /\ lastCompleted' = params
    /\ tpc' = "save_initial"
    /\ UNCHANGED <<args, params, opt, sched, left, interrupted, notRun>>

\* logger.save_model_state_dict(model.state_dict())
SaveInitial ==
    /\ tpc = "save_initial"
    /\ logger' = SaveModelStateDict(logger, params, FALSE)
    /\ tpc' = "loop"
    /\ UNCHANGED <<args, epoch, params, opt, sched, left, interrupted, lastCompleted, notRun>>

\* for epoch in range(first_epoch, args.epochs+1): logger.mark_epoch_start
EpochStart ==
    /\ tpc = "loop"
    /\ epoch <= args.epochs
    /\ logger' = MarkEpochStart(logger, epoch)
    /\ left' = args.train_batches
    /\ tpc' = "train"
    /\ UNCHANGED <<args, epoch, params, opt, sched, interrupted, lastCompleted, notRun>>

\* the range is exhausted
LoopExit ==
    /\ tpc = "loop"
    /\ epoch > args.epochs
    /\ tpc' = "final_load"
    /\ UNCHANGED <<args, epoch, params, opt, sched, logger, left, interrupted, lastCompleted, notRun>>

\* train_on, one batch: zero_grad, forward, backward, optimizer.step()
TrainBatch ==
    /\ tpc = "train"
    /\ left > 0
    /\ params' = params + 1
    /\ opt' = [opt EXCEPT !.steps = @ + 1]
    /\ left' = left - 1
    /\ UNCHANGED <<tpc, args, epoch, sched, logger, interrupted, lastCompleted, notRun>>

\* train_on returns; eval_on starts on the validation file
TrainReturn ==
    /\ tpc = "train"
    /\ left = 0
    /\ left' = args.valid_batches
    /\ tpc' = "eval_valid"
    /\ UNCHANGED <<args, epoch, params, opt, sched, logger, interrupted, lastCompleted, notRun>>

\* an evaluation pass that steps the optimizer
EvalValidBatchStepping ==
    /\ tpc = "eval_valid"
    /\ left > 0
    /\ params' = params + 1
    /\ opt' = [opt EXCEPT !.steps = @ + 1]
    /\ left' = left - 1
    /\ UNCHANGED <<tpc, args, epoch, sched, logger, interrupted, lastCompleted, notRun>>

\* eval_on, one batch: forward, loss and error counts
EvalValidBatch ==
    /\ tpc = "eval_valid"
    /\ left > 0
    /\ left' = left - 1
    /\ UNCHANGED <<tpc, args, epoch, params, opt, sched, logger, interrupted, lastCompleted, notRun>>

\* eval_on returns
EvalValidReturn ==
    /\ tpc = "eval_valid"
    /\ left = 0
    /\ tpc' = "try_on"
    /\ UNCHANGED <<args, epoch, params, opt, sched, logger, left, interrupted, lastCompleted, notRun>>

\* print(model.try_on(dataset.valid.sample_batch())[0]); logger.valid_log
TryOnSample ==
    /\ tpc = "try_on"
    /\ tpc' = "save_state"
    /\ UNCHANGED <<args, epoch, params, opt, sched, logger, left, interrupted, lastCompleted, notRun>>

\* if args.save_state: save the model (current=True) and the training state
SaveState ==
    /\ tpc = "save_state"
    /\ logger' = IF args.save_state
                 THEN SaveTrainingState(SaveModelStateDict(logger, params, TRUE), opt)
                 ELSE logger
    /\ tpc' = "lr_decay"
    /\ UNCHANGED <<args, epoch, params, opt, sched, left, interrupted, lastCompleted, notRun>>

\* if lr_decay is not None: lr_decay.step(); then the next epoch
LrDecay ==
    /\ tpc = "lr_decay"
    /\ IF sched.on
       THEN /\ sched' = [sched EXCEPT !.last_epoch = @ + 1]
            /\ opt' = IF sched.bound
                      THEN [opt EXCEPT !.lr = LrLambda(sched.last_epoch + 1, args.lr_period)]
                      ELSE opt
       ELSE UNCHANGED <<sched, opt>>
    /\ epoch' = epoch + 1
    /\ lastCompleted' = params
    /\ tpc' = "loop"
    /\ UNCHANGED <<args, params, logger, left, interrupted, notRun>>

\* except KeyboardInterrupt: anywhere inside the try block
KeyboardInterrupt ==
    /\ tpc \in {"loop", "train", "eval_valid", "try_on", "save_state", "lr_decay"}
    /\ interrupted' = TRUE
    /\ tpc' = "final_load"
    /\ UNCHANGED <<args, epoch, params, opt, sched, logger, left, lastCompleted, notRun>>

\* model.load_state_dict(logger.load_model_state_dict())
FinalLoad ==
    /\ tpc = "final_load"
    /\ params' = LoadModelStateDict(logger, FALSE)
    /\ left' = args.test_batches
    /\ tpc' = "test_eval"
    /\ UNCHANGED <<args, epoch, opt, sched, logger, interrupted, lastCompleted, notRun>>

\* eval_on over the test file, one batch
TestEvalBatch ==
    /\ tpc = "test_eval"
    /\ left > 0
    /\ left' = left - 1
    /\ UNCHANGED <<tpc, args, epoch, params, opt, sched, logger, interrupted, lastCompleted, notRun>>

\* logger.final_log(results)
FinalLog ==
    /\ tpc = "test_eval"
    /\ left = 0
    /\ tpc' = "finished"
    /\ UNCHANGED <<args, epoch, params, opt, sched, logger, left, interrupted, lastCompleted, notRun>>

RunNext ==
    \/ ResumeSetup
    \/ FreshSetup
    \/ SaveInitial
    \/ EpochStart
    \/ LoopExit
    \/ TrainBatch
    \/ TrainReturn
    \/ EvalValidBatch
    \/ EvalValidReturn
    \/ TryOnSample
    \/ SaveState
    \/ LrDecay
    \/ KeyboardInterrupt
    \/ FinalLoad
    \/ TestEvalBatch
    \/ FinalLog

SpecRun == RunInit /\ [][RunNext]_vars

(***************************************************************************)
(* Claims about the training script.                                       *)
(***************************************************************************)
\* C6: after Ctrl-C during the training epochs the run goes on to the final
\* test evaluation and final_log, and the parameters loaded and evaluated
\* there are those of the last fully completed epoch.
C6_InterruptKeepsLastEpoch ==
    (interrupted /\ tpc \in {"test_eval", "finished"}) => params = lastCompleted

\* C7: model parameters and optimizer state change only inside train_on.
C7_OnlyTrainOnMutates ==
    [][(params' # params \/ opt' # opt) => tpc = "train"]_vars

\* C7, amended: the parameters change only in train_on and where a state
\* dict is loaded (on resume and before the final evaluation); the optimizer
\* state changes only in train_on, on resume, and in the scheduler step that
\* ends an epoch; eval_on and try_on change neither.
C7_MutationSites ==
    [][/\ params' # params => tpc \in {"train", "setup", "final_load"}
       /\ opt' # opt => tpc \in {"train", "setup", "lr_decay"}
       /\ tpc \in {"eval_valid", "try_on", "test_eval"} =>
              (params' = params /\ opt' = opt)]_vars

\* a finished run that trained, evaluated, was interrupted in a later epoch
\* and loaded a state other than the one it held
C7_Witness ==
    /\ tpc = "finished"
    /\ interrupted
    /\ opt.steps >= 2
    /\ opt.lr = 1
    /\ params # opt.steps

(***************************************************************************)
(* ByteCNN.load_model.                                                     *)
(***************************************************************************)
\* the module's imports bind argparse, codecs, pprint, time, np, torch, nn,
\* optim, Variable and Logger; the name os is bound nowhere
OsBound == FALSE

\* dict(line.strip().split('=', 1) for line in f)
RECURSIVE ParseInfo(_)
ParseInfo(f) ==
    IF f = <<>> THEN <<>>
    ELSE LET d == ParseInfo(SubSeq(f, 1, Len(f) - 1))
             kv == f[Len(f)]
         IN [k \in DOMAIN d \cup {kv[1]} |-> IF k = kv[1] THEN kv[2] ELSE d[k]]

\* p[key] on a defaultdict(str)
DefaultGet(p, key) == IF key \in DOMAIN p THEN p[key] ELSE ""

\* del p[key], after p[key] has been read
Del(p, key) == [k \in DOMAIN p \ {key} |-> p[k]]

\* eval(p['model_class']): the classes the module defines evaluate
EvalClass(v) ==
    IF v \in {"ByteCNN", "ByteCNNEncoder"} THEN "ok"
    ELSE IF v = "Unknown" THEN "NameError"
    ELSE "SyntaxError"

\* eval("dict(%s)" % p['model_kwargs'])
EvalKwargs(v) ==
    IF v \in {"", "n=4"} THEN "ok"
    ELSE IF v = "Unknown" THEN "NameError"
    ELSE "TypeError"

\* load_model(path), given whether os resolves: what it raises, or "model"
LoadModelOutcome(os_bound, f) ==
    IF ~os_bound THEN "NameError"
    ELSE LET p0 == ParseInfo(f)
             cls == DefaultGet(p0, "model_class")
             p1 == Del(p0, "model_class")
             kw == DefaultGet(p1, "model_kwargs")
             p2 == Del(p1, "model_kwargs")
         IN IF EvalClass(cls) # "ok" THEN EvalClass(cls)
            ELSE IF EvalKwargs(kw) # "ok" THEN EvalKwargs(kw)
            ELSE IF Cardinality(DOMAIN p2) > 0 THEN "ValueError"
            ELSE IF DefaultGet(p2, "model_class") # "ByteCNN" THEN "AssertionError"
            ELSE IF cls = "ByteCNN" THEN "model"
            ELSE "TypeError"

LoadModelInit ==
    /\ FwdIdle
    /\ LoaderIdle
    /\ EpochIdle
    /\ RunIdle
    /\ TryOnIdle
    /\ mpc = "call"
    /\ model_info \in SeqsUpTo(InfoKeys \X InfoValues, MaxInfoLines)
    /\ loaded = "none"

\* ByteCNN.load_model(path)
LoadModel ==
    /\ mpc = "call"
    /\ loaded' = LoadModelOutcome(OsBound, model_info)
    /\ mpc' = "done"
    /\ UNCHANGED <<model_info, notLoadModel>>

LoadModelNext ==
    \/ LoadModel

SpecLoadModel == LoadModelInit /\ [][LoadModelNext]_vars

\* C8: load_model returns a model exactly when the descriptor has no keys
\* other than model_class and model_kwargs and its model_class is ByteCNN.
C8_AcceptsExactlyValid ==
    mpc = "done" =>
        LET p == ParseInfo(model_info) IN
        (loaded = "model") <=>
            /\ DOMAIN p = {"model_class", "model_kwargs"}
            /\ p["model_class"] = "ByteCNN"
            /\ p["model_kwargs"] \in {"", "n=4"}

(***************************************************************************)
(* ByteCNN.try_on: the strings made of the predicted rows.  A string is    *)
(* the sequence of its character codes.                                    *)
(***************************************************************************)
\* pred.index(v), counted from 0; Len(s) when v is not in s
RECURSIVE Index(_, _)
Index(s, v) ==
    IF s = <<>> THEN 0
    ELSE IF Head(s) = v THEN 0
    ELSE 1 + Index(Tail(s), v)

\* v in pred
Contains(s, v) == \E i \in 1..Len(s) : s[i] = v

\* a cut that keeps the EOS
TruncateThroughEos(pred) ==
    IF Contains(pred, EOS) THEN SubSeq(pred, 1, Index(pred, EOS) + 1) ELSE pred

\* pred[:pred.index(UTF8File.EOS)] if UTF8File.EOS in pred else pred
TruncateAtEos(pred) ==
    IF Contains(pred, EOS) THEN SubSeq(pred, 1, Index(pred, EOS)) ELSE pred

HexDigit(d) == IF d < 10 THEN 48 + d ELSE 87 + d

\* repr of one character of a str, inside the given quote
ReprChar(c, quote) ==
    IF c = quote \/ c = 92 THEN <<92, c>>
    ELSE IF c = 9 THEN <<92, 116>>
    ELSE IF c = 10 THEN <<92, 110>>
    ELSE IF c = 13 THEN <<92, 114>>
    ELSE IF c < 32 \/ c >= 127 THEN <<92, 120, HexDigit(c \div 16), HexDigit(c % 16)>>
    ELSE <<c>>

RECURSIVE ReprBody(_, _)
ReprBody(s, quote) ==
    IF s = <<>> THEN <<>> ELSE ReprChar(Head(s), quote) \o ReprBody(Tail(s), quote)

\* repr(''.join([chr(c) for c in pred])): a quoted, escaped literal
PyRepr(s) ==
    LET quote == IF Contains(s, 39) /\ ~Contains(s, 34) THEN 34 ELSE 39 IN
    <<quote>> \o ReprBody(s, quote) \o <<quote>>

TryOnInit ==
    /\ FwdIdle
    /\ LoaderIdle
    /\ EpochIdle
    /\ RunIdle
    /\ LoadModelIdle
    /\ ypc = "decode"
    /\ \E pred \in SeqsUpTo(PredBytes, MaxPredLen) :
         /\ pred # <<>>
         /\ predictions = <<pred>>
    /\ decoded = <<>>

\* one iteration of: for pred in predictions
DecodePred ==
    /\ ypc = "decode"
    /\ Len(decoded) < Len(predictions)
    /\ LET pred == predictions[Len(decoded) + 1] IN
       decoded' = Append(decoded, PyRepr(TruncateAtEos(pred)))
    /\ UNCHANGED <<ypc, predictions, notTryOn>>

\* return decoded
TryOnReturn ==
    /\ ypc = "decode"
    /\ Len(decoded) = Len(predictions)
    /\ ypc' = "done"
    /\ UNCHANGED <<predictions, decoded, notTryOn>>

TryOnNext ==
    \/ DecodePred
    \/ TryOnReturn

SpecTryOn == TryOnInit /\ [][TryOnNext]_vars

\* the bytes strictly before the first EOS, or the whole row without one
BeforeFirstEos(pred) ==
    LET stops == {i \in 1..Len(pred) : pred[i] = EOS} IN
    IF stops = {} THEN pred
    ELSE SubSeq(pred, 1, (CHOOSE i \in stops : \A j \in stops : i <= j) - 1)

\* C9: try_on returns, for each predicted row, the text of the bytes strictly
\* before the first predicted EOS, or of the whole row when no EOS is
\* predicted; [72,73,0,7] gives "HI".
C9_TextBeforeEos ==
    ypc = "done" =>
        \A i \in 1..Len(predictions) : decoded[i] = BeforeFirstEos(predictions[i])

\* C9, amended: try_on returns the repr of that text: the bytes strictly
\* before the first predicted EOS (or the whole row), escaped and enclosed in
\* quotes; [72,73,0,7] gives 'HI' with its quotes, and neither the EOS nor
\* anything after it is in the result.
C9_ReprBeforeEos ==
    ypc = "done" =>
        \A i \in 1..Len(predictions) :
            LET out == decoded[i] IN
            /\ out = PyRepr(BeforeFirstEos(predictions[i]))
            /\ Len(out) >= Len(BeforeFirstEos(predictions[i])) + 2
            /\ out[1] \in {34, 39}
            /\ out[Len(out)] = out[1]
            /\ predictions[i] = <<72, 73, 0, 7>> => out = <<39, 72, 73, 39>>

C9_Witness ==
    /\ ypc = "done"
    /\ predictions = <<(<<72, 73, 0, 7>>)>>
    /\ decoded = <<(<<39, 72, 73, 39>>)>>

(***************************************************************************)
(* The loader's rows through the forward pass.                             *)
(***************************************************************************)
\* the lengths the loader stores rows in: PaddedLen of a content length plus
\* the EOS, so 1 for an empty line and 2 for a line of one byte
LoaderLengths == {PaddedLen(m) : m \in 1..MaxLen}

\* C11: for every length the loader can produce, 1 and 2 included, the
\* encoder's sequence length just before flattening is 4, the flattened width
\* is the 4*emsize the postfix layers take, the decoder's output length is
\* the input length, and no layer fails.
C11_NoShapeFailure ==
    src[2] \in LoaderLengths =>
        /\ fpc # "shape_error"
        /\ (fpc = "enc_recurrent" /\ ~(it < r - 2)) => x[3] = 4
        /\ fpc = "dec_prefix" => x = <<src[1], 4 * emsize>>
        /\ fpc = "done" => x[3] = src[2]

====
